---- MODULE Spec2Model ----
(***************************************************************************)
(* Model of ldiff.py: a command-line run that reads two text files,        *)
(* strips the trailing whitespace of each whole content, compares the two   *)
(* and prints a unified diff when they differ.                              *)
(*                                                                          *)
(* Text is a sequence of one-character strings.  The characters that the    *)
(* library routines treat specially carry names: "SP" (space or tab), "LF", *)
(* "CR" and "FF" (form feed: white space, and a line boundary for           *)
(* str.splitlines, that text-mode reading leaves alone).                    *)
(***************************************************************************)
EXTENDS Naturals, Integers, Sequences, FiniteSets, TLC

VARIABLES argv, fs, pc, out, content1, content2, handles, ioLog, exitStatus

vars == <<argv, fs, pc, out, content1, content2, handles, ioLog, exitStatus>>

(************************* bounds of the model *****************************)
MaxLen == 2
MaxArgs == 3
MaxPad == 7

(***************************** vocabulary **********************************)
None == <<"None">>
Running == -1
Script == "ldiff.py"
Paths == {"a.txt", "b.txt"}
Chars == {"a", "SP", "LF", "CR", "FF"}
Whitespace == {"SP", "LF", "CR", "FF"}
LineBreaks == {"LF", "CR", "FF"}

Strs(S, n) == UNION {[1..k -> S] : k \in 0..n}

(* File contents written out character by character. *)
foo == <<"f", "o", "o">>
bar == <<"b", "a", "r">>
baz == <<"b", "a", "z">>
line1 == <<"l", "i", "n", "e", "1">>
line2 == <<"l", "i", "n", "e", "2">>

RECURSIVE JoinLines(_, _)
JoinLines(ls, sep) ==
    IF ls = <<>> THEN <<>>
    ELSE IF Len(ls) = 1 THEN ls[1]
    ELSE ls[1] \o sep \o JoinLines(Tail(ls), sep)

Samples ==
    { JoinLines(<<foo, bar>>, <<"LF">>) \o <<"LF">>,
      JoinLines(<<foo, baz>>, <<"LF">>) \o <<"LF">>,
      JoinLines(<<line1, line2>>, <<"LF">>) \o <<"LF", "LF", "LF">>,
      JoinLines(<<line1, line2>>, <<"LF">>),
      <<"a", "SP", "LF", "a">>,
      <<"a", "LF", "a">>,
      <<"a", "CR", "LF", "a">>,
      <<"a", "FF", "a">> }

(* Texts of one-letter lines around a run of equal lines, long enough for   *)
(* a diff of more than one hunk.                                            *)
Pad(k) == [i \in 1..k |-> <<"c">>]

LineTexts ==
    { JoinLines(pre \o Pad(k) \o suf, <<"LF">>) :
        pre \in Strs({<<"x">>, <<"y">>}, 1),
        suf \in Strs({<<"x">>, <<"y">>}, 1),
        k \in 0..MaxPad }

Contents == Strs(Chars, MaxLen) \cup Samples \cup LineTexts

(* What a path holds: a text, or a reason why it cannot be read.  fs maps   *)
(* the paths the run has opened so far to what they hold.                   *)
Missing == <<"missing">>
Denied == <<"denied">>
Undecodable == <<"undecodable">>
FileStates == Contents \cup {Missing, Denied, Undecodable}

(************************** library routines *******************************)
(* Text-mode reading with the default newline=None: "\r\n" and a lone "\r" *)
(* both arrive as "\n".                                                     *)
RECURSIVE TextRead(_)
TextRead(raw) ==
    IF raw = <<>> THEN <<>>
    ELSE IF raw[1] = "CR"
         THEN IF Len(raw) >= 2 /\ raw[2] = "LF"
              THEN <<"LF">> \o TextRead(SubSeq(raw, 3, Len(raw)))
              ELSE <<"LF">> \o TextRead(Tail(raw))
         ELSE <<raw[1]>> \o TextRead(Tail(raw))

isspace(c) == c \in Whitespace

rstrip_one(s) ==
    IF s # <<>> /\ isspace(s[Len(s)]) THEN SubSeq(s, 1, Len(s) - 1) ELSE s

(* str.rstrip() with no argument: drop the maximal run of white space at   *)
(* the end.                                                                 *)
RECURSIVE rstrip(_)
rstrip(s) ==
    IF s # <<>> /\ isspace(s[Len(s)]) THEN rstrip(SubSeq(s, 1, Len(s) - 1)) ELSE s

(* str.splitlines(): cut at every line boundary ("\r\n" counts as one),    *)
(* drop the boundaries, and add no empty line after a final boundary.      *)
RECURSIVE splitlines_from(_, _, _)
splitlines_from(s, i, cur) ==
    IF i > Len(s) THEN (IF cur = <<>> THEN <<>> ELSE <<cur>>)
    ELSE IF s[i] \in LineBreaks
         THEN IF s[i] = "CR" /\ i < Len(s) /\ s[i + 1] = "LF"
              THEN <<cur>> \o splitlines_from(s, i + 2, <<>>)
              ELSE <<cur>> \o splitlines_from(s, i + 1, <<>>)
         ELSE splitlines_from(s, i + 1, Append(cur, s[i]))

splitlines(s) == splitlines_from(s, 1, <<>>)

(* difflib.SequenceMatcher with no junk: positions are 0-based and ranges  *)
(* half-open, as in the library.                                            *)
context == 3

Min(x, y) == IF x < y THEN x ELSE y
Max(x, y) == IF x > y THEN x ELSE y

RECURSIVE MatchLen(_, _, _, _, _, _)
MatchLen(a, b, i, j, ahi, bhi) ==
    IF i < ahi /\ j < bhi /\ a[i + 1] = b[j + 1]
    THEN 1 + MatchLen(a, b, i + 1, j + 1, ahi, bhi)
    ELSE 0

(* The longest block a[i:i+k] = b[j:j+k] inside the two ranges; of those   *)
(* the one that starts earliest in a, and of those earliest in b.          *)
find_longest_match(a, b, alo, ahi, blo, bhi) ==
    LET cands == (alo..(ahi - 1)) \X (blo..(bhi - 1))
        len(c) == MatchLen(a, b, c[1], c[2], ahi, bhi)
        hits == {c \in cands : len(c) > 0}
    IN  IF hits = {} THEN <<alo, blo, 0>>
        ELSE LET best == CHOOSE c \in hits :
                            \A d \in hits :
                                \/ len(c) > len(d)
                                \/ /\ len(c) = len(d)
                                   /\ \/ c[1] < d[1]
                                      \/ c[1] = d[1] /\ c[2] <= d[2]
             IN  <<best[1], best[2], len(best)>>

RECURSIVE blocks_between(_, _, _, _, _, _)
blocks_between(a, b, alo, ahi, blo, bhi) ==
    LET m == find_longest_match(a, b, alo, ahi, blo, bhi)
        i == m[1]
        j == m[2]
        k == m[3]
    IN  IF k = 0 THEN <<>>
        ELSE (IF alo < i /\ blo < j
              THEN blocks_between(a, b, alo, i, blo, j) ELSE <<>>)
             \o <<m>>
             \o (IF i + k < ahi /\ j + k < bhi
                 THEN blocks_between(a, b, i + k, ahi, j + k, bhi) ELSE <<>>)

(* Adjacent blocks are collapsed into one. *)
RECURSIVE collapse(_)
collapse(bs) ==
    IF Len(bs) < 2 THEN bs
    ELSE LET x == bs[1]
             y == bs[2]
         IN  IF x[1] + x[3] = y[1] /\ x[2] + x[3] = y[2]
             THEN collapse(<<<<x[1], x[2], x[3] + y[3]>>>> \o SubSeq(bs, 3, Len(bs)))
             ELSE <<x>> \o collapse(Tail(bs))

get_matching_blocks(a, b) ==
    Append(collapse(blocks_between(a, b, 0, Len(a), 0, Len(b))),
           <<Len(a), Len(b), 0>>)

(* An opcode is <<tag, i1, i2, j1, j2>>. *)
RECURSIVE opcodes_from(_, _, _)
opcodes_from(bs, i, j) ==
    IF bs = <<>> THEN <<>>
    ELSE LET ai == bs[1][1]
             bj == bs[1][2]
             size == bs[1][3]
             tag == IF i < ai /\ j < bj THEN "replace"
                    ELSE IF i < ai THEN "delete"
                    ELSE IF j < bj THEN "insert"
                    ELSE ""
         IN  (IF tag # "" THEN <<<<tag, i, ai, j, bj>>>> ELSE <<>>)
             \o (IF size > 0
                 THEN <<<<"equal", ai, ai + size, bj, bj + size>>>> ELSE <<>>)
             \o opcodes_from(Tail(bs), ai + size, bj + size)

get_opcodes(a, b) == opcodes_from(get_matching_blocks(a, b), 0, 0)

(* get_grouped_opcodes(n): trim the equal runs at both ends to n lines and *)
(* cut the opcodes into groups where an equal run is longer than 2n.       *)
trim_first(codes, n) ==
    IF codes[1][1] = "equal"
    THEN LET c == codes[1]
         IN  <<<<"equal", Max(c[2], c[3] - n), c[3], Max(c[4], c[5] - n), c[5]>>>>
             \o Tail(codes)
    ELSE codes

trim_last(codes, n) ==
    LET c == codes[Len(codes)]
    IN  IF c[1] = "equal"
        THEN SubSeq(codes, 1, Len(codes) - 1)
             \o <<<<"equal", c[2], Min(c[3], c[2] + n), c[4], Min(c[5], c[4] + n)>>>>
        ELSE codes

RECURSIVE group_from(_, _, _)
group_from(codes, group, n) ==
    IF codes = <<>>
    THEN IF group # <<>> /\ ~(Len(group) = 1 /\ group[1][1] = "equal")
         THEN <<group>> ELSE <<>>
    ELSE LET c == codes[1]
         IN  IF c[1] = "equal" /\ c[3] - c[2] > n + n
             THEN <<Append(group,
                           <<"equal", c[2], Min(c[3], c[2] + n),
                             c[4], Min(c[5], c[4] + n)>>)>>
                  \o group_from(Tail(codes),
                                <<<<"equal", Max(c[2], c[3] - n), c[3],
                                    Max(c[4], c[5] - n), c[5]>>>>, n)
             ELSE group_from(Tail(codes), Append(group, c), n)

get_grouped_opcodes(a, b, n) ==
    LET codes0 == get_opcodes(a, b)
        codes == IF codes0 = <<>> THEN <<<<"equal", 0, 1, 0, 1>>>> ELSE codes0
    IN  group_from(trim_last(trim_first(codes, n), n), <<>>, n)

format_range_plain(start, stop) ==
    LET length == stop - start
    IN  IF length = 1 THEN <<start + 1>> ELSE <<start + 1, length>>

(* _format_range_unified: a range of one line is written as its line        *)
(* number alone; an empty range names the line before it.                  *)
format_range_unified(start, stop) ==
    LET length == stop - start
    IN  IF length = 1 THEN <<start + 1>>
        ELSE IF length = 0 THEN <<start, 0>>
        ELSE <<start + 1, length>>

RECURSIVE prefixed(_, _)
prefixed(tag, ls) ==
    IF ls = <<>> THEN <<>> ELSE <<<<tag>> \o ls[1]>> \o prefixed(tag, Tail(ls))

RECURSIVE group_lines(_, _, _)
group_lines(a, b, group) ==
    IF group = <<>> THEN <<>>
    ELSE LET c == group[1]
             olds == SubSeq(a, c[2] + 1, c[3])
             news == SubSeq(b, c[4] + 1, c[5])
         IN  (IF c[1] = "equal" THEN prefixed(" ", olds)
              ELSE (IF c[1] \in {"replace", "delete"} THEN prefixed("-", olds) ELSE <<>>)
                   \o (IF c[1] \in {"replace", "insert"} THEN prefixed("+", news) ELSE <<>>))
             \o group_lines(a, b, Tail(group))

hunk(a, b, group) ==
    LET first == group[1]
        last == group[Len(group)]
    IN  <<<<"@@", format_range_unified(first[2], last[3]),
                  format_range_unified(first[4], last[5])>>>>
        \o group_lines(a, b, group)

RECURSIVE hunks(_, _, _)
hunks(a, b, groups) ==
    IF groups = <<>> THEN <<>>
    ELSE hunk(a, b, groups[1]) \o hunks(a, b, Tail(groups))

(* difflib.unified_diff(a, b, fromfile, tofile, lineterm=''): nothing at   *)
(* all when there is no group, else the two file headers and the hunks.    *)
unified_diff(a, b, fromfile, tofile) ==
    LET groups == get_grouped_opcodes(a, b, context)
    IN  IF groups = <<>> THEN <<>>
        ELSE <<<<"---">> \o fromfile, <<"+++">> \o tofile>> \o hunks(a, b, groups)

(***************************** the program *********************************)
(* What open() or read() raises for a path in the given state. *)
Raised(st) ==
    IF st = Missing THEN "FileNotFoundError"
    ELSE IF st = Denied THEN "PermissionError"
    ELSE IF st = Undecodable THEN "UnicodeDecodeError"
    ELSE "none"

Exceptions == {"FileNotFoundError", "PermissionError", "UnicodeDecodeError"}

Handler_nf(exc) ==
    IF exc = "FileNotFoundError" THEN "not_found" ELSE "propagate"

Handler_generic(exc) ==
    IF exc \in Exceptions THEN "read_error" ELSE "propagate"

(* The except clauses of read_file_content_loosely, tried in order. *)
Handler(exc) ==
    IF exc = "FileNotFoundError" THEN "not_found"
    ELSE IF exc \in Exceptions THEN "read_error"
    ELSE "propagate"

(* Lines of output. *)
UsageLine == <<"usage">>
Banner(p1, p2) == << <<"--- Loose Diff ---">>, <<" a: ", p1>>, <<" b: ", p2>>, <<"------">> >>
NotFoundLine(p) == <<"Error: not found", p>>
ReadErrorLine(p, exc) == <<"Error: while reading", p, exc>>
EquivalentLine == <<"equivalent">>
DiffersLine == <<"differs">>
TracebackLine(exc) == <<"Traceback", exc>>

file1_path == argv[2]
file2_path == argv[3]
PathOf(n) == IF n = 1 THEN file1_path ELSE file2_path

AfterLoad_skip(n) == "check"

(* loose_diff, lines 70-71: the two loads follow each other. *)
AfterLoad(n) == IF n = 1 THEN "open2" ELSE "check"

Init ==
    /\ argv \in {<<Script>> \o args : args \in Strs(Paths, MaxArgs)}
    /\ fs = [p \in {} |-> Missing]
    /\ pc = "main"
    /\ out = <<>>
    /\ content1 = None
    /\ content2 = None
    /\ handles = {}
    /\ ioLog = <<>>
    /\ exitStatus = Running

BadArgCount_lt == Len(argv) < 3

(* __main__, line 115. *)
BadArgCount == Len(argv) # 3

(* __main__, lines 115-118: wrong number of arguments. *)
Usage ==
    /\ pc = "main"
    /\ BadArgCount
    /\ out' = Append(out, UsageLine)
    /\ exitStatus' = 1
    /\ pc' = "done"
    /\ UNCHANGED <<argv, fs, content1, content2, handles, ioLog>>

(* __main__, lines 121-125, and the banner of loose_diff, lines 64-67. *)
Start ==
    /\ pc = "main"
    /\ ~BadArgCount
    /\ out' = out \o Banner(file1_path, file2_path)
    /\ pc' = "open1"
    /\ UNCHANGED <<argv, fs, content1, content2, handles, ioLog, exitStatus>>

SetContent(n, v) ==
    /\ content1' = IF n = 1 THEN v ELSE content1
    /\ content2' = IF n = 2 THEN v ELSE content2

(* An exception inside the try block of read_file_content_loosely. *)
Fail(n, exc) ==
    LET p == PathOf(n)
        h == Handler(exc)
    IN  IF h = "propagate"
        THEN /\ out' = Append(out, TracebackLine(exc))
             /\ exitStatus' = 1
             /\ pc' = "done"
             /\ UNCHANGED <<content1, content2>>
        ELSE /\ out' = Append(out, IF h = "not_found" THEN NotFoundLine(p)
                                   ELSE ReadErrorLine(p, exc))
             /\ SetContent(n, None)
             /\ pc' = AfterLoad(n)
             /\ UNCHANGED exitStatus

(* read_file_content_loosely, line 39: open the file.  What the path holds *)
(* is found out here, the first time the run opens it.                      *)
OpenFile(n) ==
    /\ pc = IF n = 1 THEN "open1" ELSE "open2"
    /\ LET p == PathOf(n)
       IN  \E st \in FileStates :
               /\ p \in DOMAIN fs => st = fs[p]
               /\ fs' = [q \in DOMAIN fs \cup {p} |-> IF q = p THEN st ELSE fs[q]]
               /\ ioLog' = Append(ioLog, <<"open", p>>)
               /\ IF st \in {Missing, Denied}
                  THEN /\ Fail(n, Raised(st))
                       /\ UNCHANGED handles
                  ELSE /\ handles' = handles \cup {n}
                       /\ pc' = IF n = 1 THEN "read1" ELSE "read2"
                       /\ UNCHANGED <<out, content1, content2, exitStatus>>
    /\ UNCHANGED argv

(* read_file_content_loosely, line 43: read, strip, and leave the with block. *)
ReadFile(n) ==
    /\ pc = IF n = 1 THEN "read1" ELSE "read2"
    /\ LET p == PathOf(n)
       IN  /\ ioLog' = ioLog \o << <<"read", p>>, <<"close", p>> >>
           /\ handles' = handles \ {n}
           /\ IF fs[p] = Undecodable
              THEN Fail(n, Raised(fs[p]))
              ELSE /\ SetContent(n, rstrip(TextRead(fs[p])))
                   /\ pc' = AfterLoad(n)
                   /\ UNCHANGED <<out, exitStatus>>
    /\ UNCHANGED <<argv, fs>>

AnyLoadFailed_and == content1 = None /\ content2 = None

(* loose_diff, line 75. *)
AnyLoadFailed == content1 = None \/ content2 = None

(* loose_diff, lines 75-76. *)
LoadFailed ==
    /\ pc = "check"
    /\ AnyLoadFailed
    /\ pc' = "exit"
    /\ UNCHANGED <<argv, fs, out, content1, content2, handles, ioLog, exitStatus>>

(* loose_diff, lines 80-82. *)
Equivalent ==
    /\ pc = "check"
    /\ ~AnyLoadFailed
    /\ content1 = content2
    /\ out' = Append(out, EquivalentLine)
    /\ pc' = "exit"
    /\ UNCHANGED <<argv, fs, content1, content2, handles, ioLog, exitStatus>>

(* loose_diff, line 86. *)
Differs ==
    /\ pc = "check"
    /\ ~AnyLoadFailed
    /\ content1 # content2
    /\ out' = Append(out, DiffersLine)
    /\ pc' = "diff"
    /\ UNCHANGED <<argv, fs, content1, content2, handles, ioLog, exitStatus>>

DiffOf(c1, c2, p1, p2) ==
    unified_diff(splitlines(c1), splitlines(c2), <<"a/", p1>>, <<"b/", p2>>)

(* loose_diff, lines 90-105. *)
PrintDiff ==
    /\ pc = "diff"
    /\ out' = out \o DiffOf(content1, content2, file1_path, file2_path)
    /\ pc' = "exit"
    /\ UNCHANGED <<argv, fs, content1, content2, handles, ioLog, exitStatus>>

(* The script runs off its end. *)
Exit ==
    /\ pc = "exit"
    /\ exitStatus' = 0
    /\ pc' = "done"
    /\ UNCHANGED <<argv, fs, out, content1, content2, handles, ioLog>>

Next ==
    \/ Usage
    \/ Start
    \/ \E n \in {1, 2} : OpenFile(n)
    \/ \E n \in {1, 2} : ReadFile(n)
    \/ LoadFailed
    \/ Equivalent
    \/ Differs
    \/ PrintDiff
    \/ Exit

Spec == Init /\ [][Next]_vars

(****************************** properties *********************************)
TwoArgs == Len(argv) = 3
Finished == pc \in {"exit", "done"}
Opened(n) == TwoArgs /\ PathOf(n) \in DOMAIN fs
Holds(n) == fs[PathOf(n)]
IsText(st) == st \notin {Missing, Denied, Undecodable}
Loaded(n) == Opened(n) /\ IsText(Holds(n))
BothLoaded == TwoArgs /\ pc \in {"check", "diff", "exit", "done"} /\ Loaded(1) /\ Loaded(2)

Printed(l) == \E i \in 1..Len(out) : out[i] = l
IsErrorLine(l) == l[1] \in {"Error: not found", "Error: while reading"}
IsDiffLine(l) == l[1] \in {"---", "+++", "@@", " ", "-", "+"}
AllSpace(w) == \A i \in 1..Len(w) : w[i] \in Whitespace
Extends(cw, c) ==
    /\ Len(cw) >= Len(c)
    /\ SubSeq(cw, 1, Len(c)) = c
    /\ AllSpace(SubSeq(cw, Len(c) + 1, Len(cw)))
AfterBanner == SubSeq(out, 5, Len(out))
DiffPrinted == SubSeq(out, 6, Len(out))

(* The text of a file with nothing but its trailing white space removed. *)
RECURSIVE WithoutTrailingSpace(_)
WithoutTrailingSpace(raw) ==
    IF raw # <<>> /\ raw[Len(raw)] \in Whitespace
    THEN WithoutTrailingSpace(SubSeq(raw, 1, Len(raw) - 1))
    ELSE raw

(* The result of patching the line sequence a with the printed diff d: the *)
(* lines before each hunk are copied, a context line is checked and kept,  *)
(* a '-' line is checked and dropped, a '+' line is added.                 *)
NoPatch == << <<"patch does not apply">> >>

RangeBefore(r) == IF Len(r) = 2 /\ r[2] = 0 THEN r[1] ELSE r[1] - 1

RECURSIVE Patch(_, _, _, _, _)
Patch(a, d, k, ai, res) ==
    IF k > Len(d) THEN res \o SubSeq(a, ai + 1, Len(a))
    ELSE LET l == d[k]
             tag == l[1]
         IN  IF tag \in {"---", "+++"} THEN Patch(a, d, k + 1, ai, res)
             ELSE IF tag = "@@"
             THEN LET before == RangeBefore(l[2])
                      res2 == res \o SubSeq(a, ai + 1, before)
                  IN  IF before < ai \/ before > Len(a) \/ Len(res2) # RangeBefore(l[3])
                      THEN NoPatch
                      ELSE Patch(a, d, k + 1, before, res2)
             ELSE IF tag \in {" ", "-"}
             THEN IF ai < Len(a) /\ a[ai + 1] = Tail(l)
                  THEN Patch(a, d, k + 1, ai + 1,
                             IF tag = " " THEN Append(res, Tail(l)) ELSE res)
                  ELSE NoPatch
             ELSE IF tag = "+" THEN Patch(a, d, k + 1, ai, Append(res, Tail(l)))
             ELSE NoPatch

IsLineOf(t, ls) == \E i \in 1..Len(ls) : ls[i] = t

(* C1 (as stated): once both files are loaded and compared, the            *)
(* 'equivalent' line is printed exactly when the two file contents, with   *)
(* only their trailing white space removed, are the same characters.       *)
C1_EquivalentIffSameButTrailing ==
    (BothLoaded /\ Finished) =>
        (Printed(EquivalentLine)
            <=> WithoutTrailingSpace(Holds(1)) = WithoutTrailingSpace(Holds(2)))

(* C2: when file 2 holds the content of file 1 followed by white space     *)
(* only (or the other way round), the two loads return the same string.    *)
C2_WhitespaceSuffixIgnored ==
    (BothLoaded /\ (Extends(Holds(2), Holds(1)) \/ Extends(Holds(1), Holds(2))))
        => content1 = content2

C2_Witness ==
    /\ BothLoaded
    /\ file1_path # file2_path
    /\ Len(Holds(2)) >= Len(Holds(1)) + 2
    /\ Holds(1) # <<>> /\ ~AllSpace(Holds(1))
    /\ Extends(Holds(2), Holds(1))
    /\ content1 = content2

(* C3 (as stated): a successful load returns the file's content with only  *)
(* the trailing run of white space removed, every other character          *)
(* (carriage returns included) as it is in the file.                       *)
C3_OnlyTrailingRemoved ==
    /\ (pc \in {"open2", "read2", "check", "diff", "exit", "done"} /\ Loaded(1))
           => content1 = WithoutTrailingSpace(Holds(1))
    /\ (pc \in {"check", "diff", "exit", "done"} /\ Loaded(2))
           => content2 = WithoutTrailingSpace(Holds(2))

(* C4: in a two-argument run where a path does not exist, the not-found    *)
(* line naming that path is printed, and what follows the banner is error  *)
(* lines only: no 'equivalent', no 'differs', no diff line.                *)
C4_MissingFileNoDiff ==
    \A n \in {1, 2} :
        (Finished /\ Opened(n) /\ Holds(n) = Missing) =>
            /\ Printed(NotFoundLine(PathOf(n)))
            /\ \A i \in 5..Len(out) : IsErrorLine(out[i])
            /\ pc = "done" => Len(out) \in {5, 6}

C4_Witness ==
    /\ pc = "done"
    /\ TwoArgs
    /\ Opened(1) /\ Opened(2)
    /\ Holds(1) # Missing /\ IsText(Holds(1)) /\ Holds(1) # <<>>
    /\ Holds(2) = Missing
    /\ out = Banner(file1_path, file2_path) \o <<NotFoundLine(file2_path)>>

(* C5: with an argument count other than two the run prints the usage      *)
(* line, exits with status 1 and neither prints the banner nor opens a     *)
(* file; with two arguments it never prints the usage line and never has   *)
(* exit status 1.                                                          *)
C5_UsageIffWrongArgCount ==
    /\ ~TwoArgs =>
          /\ ioLog = <<>> /\ fs = <<>> /\ handles = {}
          /\ pc \in {"main", "done"}
          /\ pc = "main" => out = <<>> /\ exitStatus = Running
          /\ pc = "done" => out = <<UsageLine>> /\ exitStatus = 1
    /\ TwoArgs => ~Printed(UsageLine) /\ exitStatus # 1

C5_Witness ==
    /\ Len(argv) = 4
    /\ pc = "done"
    /\ out = <<UsageLine>>
    /\ exitStatus = 1

(* C6: a two-argument run that is not done can always take a step, every  *)
(* step moves it forward, and it is done with exit status 0 whatever the   *)
(* two loads met: no exception leaves loose_diff; a load that fails leaves *)
(* None and an error line naming the path, and no file stays open.         *)
Rank(p) ==
    CASE p = "main" -> 0 [] p = "open1" -> 1 [] p = "read1" -> 2
      [] p = "open2" -> 3 [] p = "read2" -> 4 [] p = "check" -> 5
      [] p = "diff" -> 6 [] p = "exit" -> 7 [] p = "done" -> 8

CanStep ==
    \/ pc = "diff"
    \/ ENABLED \/ Usage
               \/ Start
               \/ \E n \in {1, 2} : OpenFile(n)
               \/ \E n \in {1, 2} : ReadFile(n)
               \/ LoadFailed
               \/ Equivalent
               \/ Differs
               \/ Exit

C6_Safe ==
    TwoArgs =>
        /\ pc # "done" => CanStep
        /\ pc = "done" => exitStatus = 0 /\ handles = {}
        /\ exitStatus \in {Running, 0}
        /\ \A i \in 1..Len(out) : out[i][1] # "Traceback"
        /\ \A n \in {1, 2} :
              (pc \in {"check", "diff", "exit", "done"} /\ ~Loaded(n)) =>
                  /\ (IF n = 1 THEN content1 ELSE content2) = None
                  /\ \E i \in 5..Len(out) :
                        IsErrorLine(out[i]) /\ out[i][2] = PathOf(n)

C6_TwoArgRunExitsZero ==
    /\ []C6_Safe
    /\ [][Rank(pc') > Rank(pc)]_vars

C6_Witness ==
    /\ pc = "done"
    /\ TwoArgs
    /\ Holds(1) = Denied
    /\ Holds(2) = Undecodable
    /\ exitStatus = 0

(* C7: the diff printed after the 'differs' line patches the lines of      *)
(* file 1 into the lines of file 2: every '-' line is a line of file 1,    *)
(* every '+' line a line of file 2, and applying the hunks at the          *)
(* positions their '@@' markers name gives exactly the lines of file 2.    *)
(* For foo/bar against foo/baz the diff is the two headers, one marker,    *)
(* ' foo', '-bar' and '+baz'.                                              *)
C7_DiffIsEditScript ==
    (Finished /\ Printed(DiffersLine)) =>
        LET d == DiffPrinted
            lines1 == splitlines(content1)
            lines2 == splitlines(content2)
        IN  /\ \A i \in 1..Len(d) :
                  /\ IsDiffLine(d[i])
                  /\ d[i][1] = "-" => IsLineOf(Tail(d[i]), lines1)
                  /\ d[i][1] = "+" => IsLineOf(Tail(d[i]), lines2)
            /\ Patch(lines1, d, 1, 0, <<>>) = lines2
            /\ (/\ lines1 = <<foo, bar>> /\ lines2 = <<foo, baz>>
                /\ file1_path = "a.txt" /\ file2_path = "b.txt")
               => d = << <<"---", "a/", "a.txt">>, <<"+++", "b/", "b.txt">>,
                         <<"@@", <<1, 2>>, <<1, 2>>>>,
                         <<" ">> \o foo, <<"-">> \o bar, <<"+">> \o baz >>

C7_Witness ==
    /\ pc = "done"
    /\ Printed(DiffersLine)
    /\ Len(SelectSeq(DiffPrinted, LAMBDA l : l[1] = "@@")) = 2
    /\ \E i \in 1..Len(DiffPrinted) : DiffPrinted[i][1] = "-"
    /\ \E i \in 1..Len(DiffPrinted) : DiffPrinted[i][1] = "+"

(* C8: a two-argument run prints the banner first, before it opens a       *)
(* file, and then one of: one or two error lines; the 'equivalent' line    *)
(* alone; the 'differs' line followed by diff lines only.                  *)
C8_OutputShape ==
    TwoArgs =>
        /\ ioLog # <<>> =>
              Len(out) >= 4 /\ SubSeq(out, 1, 4) = Banner(file1_path, file2_path)
        /\ pc # "main" => SubSeq(out, 1, 4) = Banner(file1_path, file2_path)
        /\ ~(Printed(EquivalentLine) /\ Printed(DiffersLine))
        /\ \A i \in 1..Len(out) :
              IsDiffLine(out[i]) => \E j \in 1..(i - 1) : out[j] = DiffersLine
        /\ Finished =>
              LET rest == AfterBanner
              IN  \/ /\ Len(rest) \in {1, 2}
                     /\ \A i \in 1..Len(rest) : IsErrorLine(rest[i])
                  \/ rest = <<EquivalentLine>>
                  \/ /\ rest # <<>>
                     /\ rest[1] = DiffersLine
                     /\ \A i \in 2..Len(rest) : IsDiffLine(rest[i])

C8_Witness ==
    /\ pc = "done"
    /\ TwoArgs
    /\ Len(out) > 7
    /\ out[5] = DiffersLine
    /\ out[6][1] = "---"

(* C9: the second file is loaded whatever became of the first: when the    *)
(* failure check is reached, path 1 was opened and then path 2; two        *)
(* failures print two error lines, path 1's first; when only path 1        *)
(* fails, file 2 is opened, read and closed and nothing is printed about   *)
(* it.                                                                     *)
C9_SecondLoadAlwaysHappens ==
    (TwoArgs /\ pc \in {"check", "diff", "exit", "done"}) =>
        LET events(n) ==
                IF Holds(n) \in {Missing, Denied}
                THEN << <<"open", PathOf(n)>> >>
                ELSE << <<"open", PathOf(n)>>, <<"read", PathOf(n)>>,
                        <<"close", PathOf(n)>> >>
        IN  /\ Opened(1) /\ Opened(2)
            /\ ioLog = events(1) \o events(2)
            /\ handles = {}
            /\ (~Loaded(1) /\ ~Loaded(2)) =>
                  /\ Len(out) = 6
                  /\ IsErrorLine(out[5]) /\ out[5][2] = file1_path
                  /\ IsErrorLine(out[6]) /\ out[6][2] = file2_path
            /\ (~Loaded(1) /\ Loaded(2)) =>
                  /\ Len(out) = 5
                  /\ IsErrorLine(out[5]) /\ out[5][2] = file1_path
                  /\ content2 # None

C9_Witness ==
    /\ pc = "done"
    /\ TwoArgs
    /\ file1_path # file2_path
    /\ Holds(1) = Missing
    /\ IsText(Holds(2)) /\ Holds(2) # <<>>
    /\ ioLog = << <<"open", file1_path>>, <<"open", file2_path>>,
                  <<"read", file2_path>>, <<"close", file2_path>> >>

(* C10 (as stated): whenever the 'differs' line is printed, the diff after *)
(* it has the two headers and at least one '-' or '+' line; that is, two   *)
(* different normalized contents never split into the same lines.          *)
C10_DiffersThenDiffNonEmpty ==
    (Finished /\ Printed(DiffersLine)) =>
        /\ splitlines(content1) # splitlines(content2)
        /\ Len(DiffPrinted) >= 3
        /\ DiffPrinted[1] = <<"---", "a/", file1_path>>
        /\ DiffPrinted[2] = <<"+++", "b/", file2_path>>
        /\ \E i \in 3..Len(DiffPrinted) : DiffPrinted[i][1] \in {"-", "+"}

====
